---- MODULE Spec2Model ----
(***************************************************************************)
(* gitgps: from the cursor position in a file of a git working tree to the *)
(* URL of the same line(s) on the hosting service.                         *)
(*                                                                         *)
(* Strings the code takes apart (remote names, rev-parse output, remote    *)
(* URLs, the custom-URL template) are sequences of tokens, a token being a *)
(* non-empty piece of text; strings the code only passes along (commit     *)
(* hashes, branch names, the file path) are TLA+ strings.                  *)
(*                                                                         *)
(* The model follows src/extension.ts, the revision package.json builds    *)
(* (simple-git, git-url-parse, five commands).                             *)
(***************************************************************************)
EXTENDS Integers, Sequences, FiniteSets, TLC

VARIABLES
    repo,       \* the git repository as the git queries see it
    editor,     \* vscode.window.activeTextEditor and its selection
    config,     \* the "gitgps" configuration section
    run,        \* the locals and the position of the command being run
    shown,      \* the messages shown by the run (errors and warnings)
    opened,     \* the URIs given to vscode.env.openExternal
    clipboard,  \* the text of the clipboard
    barItems,   \* the number of status bar items created by copyCurrentLine
    history,    \* the HEAD states the repository was in during the run
    documents,  \* the documents showLineDebugInfo has opened, as their JSON values
    call        \* a call of one pure function: arguments and returned value

vars == <<repo, editor, config, run, shown, opened, clipboard, barItems, history, documents, call>>

(***************************************************************************)
(* Bounds                                                                  *)
(***************************************************************************)
MaxRemotes == 2      \* remotes configured in a repository
MaxLine == 2         \* zero-based line numbers of the selection: 0..MaxLine-1
MaxRepoChanges == 1  \* changes of the repository while a command runs
MaxTemplateLen == 4  \* tokens of a custom-URL template

Min(S) == CHOOSE x \in S : \A y \in S : x <= y

\* A value that is `undefined` where a string is expected.
Undefined == <<"<undefined>">>

(***************************************************************************)
(* Remote selection                                                        *)
(***************************************************************************)

\* remote.match(/(.+?)\//)?.[1] ?? remote : the text before the first "/"
\* that has at least one character before it; the whole text without one.
stripBranchFromRemote(remote) ==
    LET slashes == {i \in 2..Len(remote) : remote[i] = "/"}
    IN  IF slashes = {} THEN remote ELSE SubSeq(remote, 1, Min(slashes) - 1)

\* remotes.find(r => r.name === name): <<>> for undefined, <<r>> for r.
FindRemote(remotes, name) ==
    LET hits == {i \in 1..Len(remotes) : remotes[i].name = name}
    IN  IF hits = {} THEN <<>> ELSE <<remotes[Min(hits)]>>

\* git rev-parse --abbrev-ref @{upstream}: the short name of the tracked
\* ref, <remote>/<branch>, the bare branch name when the upstream is a
\* local branch (remote "."), and a failure when no upstream is set.
revparseUpstream(upstream) ==
    IF ~upstream.set THEN [ok |-> FALSE, out |-> <<>>]
    ELSE IF upstream.remote = <<".">> THEN [ok |-> TRUE, out |-> upstream.branch]
    ELSE [ok |-> TRUE, out |-> upstream.remote \o <<"/">> \o upstream.branch]

\* getRemote once both git queries have returned: <<>> for null.
getRemoteLastRemote(remotes, upstreamOut, prefferedRemoteName) ==
    LET headRemote == IF upstreamOut.ok THEN stripBranchFromRemote(upstreamOut.out) ELSE <<>>
        remote == IF Len(headRemote) > 0 THEN FindRemote(remotes, headRemote) ELSE <<>>
        prefferedRemote == FindRemote(remotes, prefferedRemoteName)
    IN  IF remote # <<>> THEN remote
        ELSE IF prefferedRemote # <<>> THEN prefferedRemote
        ELSE IF Len(remotes) > 0 THEN <<remotes[Len(remotes)]>>
        ELSE <<>>

getRemote(remotes, upstreamOut, prefferedRemoteName) ==
    LET headRemote == IF upstreamOut.ok THEN stripBranchFromRemote(upstreamOut.out) ELSE <<>>
        remote == IF Len(headRemote) > 0 THEN FindRemote(remotes, headRemote) ELSE <<>>
        prefferedRemote == FindRemote(remotes, prefferedRemoteName)
    IN  IF remote # <<>> THEN remote
        ELSE IF prefferedRemote # <<>> THEN prefferedRemote
        ELSE IF Len(remotes) > 0 THEN <<remotes[1]>>
        ELSE <<>>

(***************************************************************************)
(* Custom-URL template                                                     *)
(***************************************************************************)

\* The own keys of the object literal passed as `variables`.
VariableKeys == {"username", "ref", "lineGithub", "lineBitbucket", "filepath", "folderName"}

\* Keys every object literal inherits from Object.prototype; the model
\* carries two of them.  variables[k] is then a function, which
\* String.prototype.replace turns into its source text.
InheritedKeys == {"toString", "constructor"}

InheritedText(k) ==
    IF k = "constructor" THEN <<"function Object() { [native code] }">>
    ELSE <<"function ", k, "() { [native code] }">>

\* variables[varKey] ?? "" : varKey is the text between the braces.
LookupVariable(variables, varKey) ==
    IF Len(varKey) = 1 /\ varKey[1] \in VariableKeys
    THEN IF variables[varKey[1]] = Undefined THEN <<>> ELSE variables[varKey[1]]
    ELSE IF Len(varKey) = 1 /\ varKey[1] \in InheritedKeys
    THEN InheritedText(varKey[1])
    ELSE <<>>

\* The braces after position i.
BracesAfter(s, i) == {j \in (i + 1)..Len(s) : s[j] \in {"{", "}"}}

\* /(?<!\\){([^{}]*?)(?<!\\)}/ matches at i: an opening brace not preceded by
\* a backslash, then no brace up to a closing brace not preceded by one.
MatchesAt(s, i) ==
    /\ s[i] = "{"
    /\ (i = 1 \/ s[i - 1] # "\\")
    /\ BracesAfter(s, i) # {}
    /\ s[Min(BracesAfter(s, i))] = "}"
    /\ s[Min(BracesAfter(s, i)) - 1] # "\\"

\* customUrl.replace(regex /g, callback) from position i on: matches are
\* found left to right and do not overlap.
RECURSIVE ReplaceFrom(_, _, _)
ReplaceFrom(s, i, variables) ==
    IF i > Len(s) THEN <<>>
    ELSE IF MatchesAt(s, i)
    THEN LET close == Min(BracesAfter(s, i))
         IN  LookupVariable(variables, SubSeq(s, i + 1, close - 1))
                 \o ReplaceFrom(s, close + 1, variables)
    ELSE <<s[i]>> \o ReplaceFrom(s, i + 1, variables)

replaceVariablesCustomUrl(customUrl, variables) == ReplaceFrom(customUrl, 1, variables)

\* text.replaceAll(" ", "")
RECURSIVE RemoveSpaces(_)
RemoveSpaces(text) ==
    IF text = <<>> THEN <<>>
    ELSE IF Head(text) = " " THEN RemoveSpaces(Tail(text))
    ELSE <<Head(text)>> \o RemoveSpaces(Tail(text))

(***************************************************************************)
(* URL synthesis                                                           *)
(***************************************************************************)

\* gitUrlParse(url).toString("https").replace(/\.git$/, ""): a remote URL is
\* [scheme] [user@] host-tokens (":" | "/") path [".git"]; the result keeps
\* the host and the path and always has the https scheme.
UrlPrefixTokens == {"https://", "ssh://", "git@"}

RECURSIVE DropPrefix(_)
DropPrefix(url) ==
    IF url # <<>> /\ Head(url) \in UrlPrefixTokens THEN DropPrefix(Tail(url)) ELSE url

refineURL(url) ==
    LET rest == DropPrefix(url)
        sep == Min({i \in 1..Len(rest) : rest[i] \in {":", "/"}})
        full == SubSeq(rest, sep + 1, Len(rest))
        path == IF full # <<>> /\ full[Len(full)] = ".git"
                THEN SubSeq(full, 1, Len(full) - 1) ELSE full
    IN  [authority |-> SubSeq(rest, 1, sep - 1), path |-> path]

\* baseUri.authority.includes("bitbucket")
isBitbucket(authority) == \E i \in 1..Len(authority) : authority[i] = "bitbucket"

formatLineAlwaysRange(lineStart, lineEnd, format) ==
    IF format = "github"
    THEN <<"L", ToString(lineStart), "-", "L", ToString(lineEnd)>>
    ELSE <<ToString(lineStart), ":", ToString(lineEnd)>>

formatLine(lineStart, lineEnd, format) ==
    IF format = "github"
    THEN IF lineStart = lineEnd
         THEN <<"L", ToString(lineStart)>>
         ELSE <<"L", ToString(lineStart), "-", "L", ToString(lineEnd)>>
    ELSE IF lineStart = lineEnd
         THEN <<ToString(lineStart)>>
         ELSE <<ToString(lineStart), ":", ToString(lineEnd)>>

\* The reference of the link: permalink ? headCommit : headSymbolic
resolveRefAlwaysSymbolic(permalink, headCommit, headSymbolic) == headSymbolic

resolveRef(permalink, headCommit, headSymbolic) ==
    IF permalink THEN headCommit ELSE headSymbolic

\* The value getCurrentLine returns when it returns no URI.
NoUri == [kind |-> "none"]

\* vscode.Uri.joinPath(baseUri, ...).with({query, fragment}) for the two hosts.
buildUri(baseUri, ref, headCommit, headSymbolic, filepath, lineStart, lineEnd) ==
    IF isBitbucket(baseUri.authority)
    THEN [kind |-> "uri", authority |-> baseUri.authority,
          path |-> baseUri.path \o <<"src", headCommit, filepath>>,
          query |-> <<"at=", headSymbolic>>,
          fragment |-> <<"lines-">> \o formatLine(lineStart, lineEnd, "bitbucket")]
    ELSE [kind |-> "uri", authority |-> baseUri.authority,
          path |-> baseUri.path \o <<"blob", ref, filepath>>,
          query |-> <<>>,
          fragment |-> formatLine(lineStart, lineEnd, "github")]

\* The variables getCurrentLine gives to the template.
customUrlVariables(userName, ref, lineStart, lineEnd, filepath, folderName) ==
    [k \in VariableKeys |->
        CASE k = "username" -> RemoveSpaces(IF userName = Undefined THEN <<>> ELSE userName)
          [] k = "ref" -> <<ref>>
          [] k = "lineGithub" -> formatLine(lineStart, lineEnd, "github")
          [] k = "lineBitbucket" -> formatLine(lineStart, lineEnd, "bitbucket")
          [] k = "filepath" -> <<filepath>>
          [] k = "folderName" -> folderName]

\* vscode.Uri.parse(replaceVariablesCustomUrl(customUrl, {...}))
buildCustomUri(customUrl, variables) ==
    [kind |-> "custom", text |-> replaceVariablesCustomUrl(customUrl, variables)]

(***************************************************************************)
(* The environment: repository, editor and configuration                   *)
(***************************************************************************)

Toplevel == <<"/home/u/proj">>

\* The HEAD states of the repository: branch main at c1, branch dev at c2,
\* and commit c3 checked out detached (--abbrev-ref HEAD prints "HEAD").
HeadStates ==
    { [commit |-> "c1", symbolic |-> "main"], [commit |-> "c2", symbolic |-> "dev"],
      [commit |-> "c3", symbolic |-> "HEAD"] }

BranchNames == {"main", "dev"}

GithubSsh == <<"git@", "github", ".com", ":", "owner/repo", ".git">>
GithubHttps == <<"https://", "github", ".com", "/", "bitbucket", "-mirrors/repo">>
BitbucketSsh == <<"git@", "bitbucket", ".org", ":", "team/repo", ".git">>
BitbucketHttps == <<"https://", "git.", "bitbucket", ".corp", "/", "team/repo", ".git">>

Remote(name, fetch, push) == [name |-> name, refs |-> [fetch |-> fetch, push |-> push]]

NoUpstream == [set |-> FALSE, remote |-> <<>>, branch |-> <<>>]
Upstream(remote, branch) == [set |-> TRUE, remote |-> remote, branch |-> branch]

\* The remotes and the upstream of the repositories of the command runs.
RemoteSetups ==
    { [remotes |-> <<>>, upstream |-> NoUpstream],
      [remotes |-> <<Remote(<<"origin">>, GithubSsh, GithubSsh)>>, upstream |-> NoUpstream],
      [remotes |-> <<Remote(<<"origin">>, Undefined, BitbucketSsh)>>,
       upstream |-> Upstream(<<"origin">>, <<"main">>)],
      [remotes |-> <<Remote(<<"origin">>, Undefined, Undefined)>>, upstream |-> NoUpstream],
      [remotes |-> <<Remote(<<"origin">>, GithubHttps, Undefined),
                     Remote(<<"up">>, BitbucketHttps, Undefined)>>,
       upstream |-> NoUpstream],
      [remotes |-> <<Remote(<<"origin">>, GithubHttps, Undefined),
                     Remote(<<"up">>, BitbucketHttps, Undefined)>>,
       upstream |-> Upstream(<<"up">>, <<"feat", "/", "x">>)] }

FileStatuses == {"clean", "modified", "not_added", "created"}

NotARepo ==
    [isRepo |-> FALSE, head |-> [commit |-> "", symbolic |-> ""], remotes |-> <<>>,
     upstream |-> NoUpstream, ahead |-> 0, behind |-> 0, fileStatus |-> "clean",
     userName |-> Undefined]

Repos ==
    { [isRepo |-> TRUE, head |-> h, remotes |-> s.remotes, upstream |-> s.upstream,
       ahead |-> a, behind |-> b, fileStatus |-> f, userName |-> <<"Jane", " ", "Doe">>] :
         h \in HeadStates, s \in RemoteSetups, a \in 0..1, b \in 0..1, f \in FileStatuses }

NoEditor == [active |-> FALSE, fileName |-> <<>>, startLine |-> 0, endLine |-> 0,
             folderName |-> Undefined]

Editors ==
    { [active |-> TRUE, fileName |-> Toplevel \o <<"/", "src/a.ts">>,
       startLine |-> sel[1], endLine |-> sel[2], folderName |-> <<"proj">>] :
         sel \in {x \in (0..(MaxLine - 1)) \X (0..(MaxLine - 1)) : x[1] <= x[2]} }

DefaultCustomUrl ==
    <<"https://github.com/", "{", "username", "}", "/", "{", "folderName", "}", "/tree/",
      "{", "ref", "}", "/", "{", "filepath", "}", "#", "{", "lineGithub", "}">>

Configs ==
    { [prefferedRemote |-> <<"origin">>, customUrlEnabled |-> c, customUrl |-> DefaultCustomUrl] :
        c \in BOOLEAN }

\* git.status(): the counts and the lists of paths, relative to the top
\* level; the repository also holds a file that is never tracked.
gitStatus(r, filepath) ==
    [ahead |-> r.ahead, behind |-> r.behind,
     not_added |-> {"notes.txt"} \cup (IF r.fileStatus = "not_added" THEN {filepath} ELSE {}),
     created |-> IF r.fileStatus = "created" THEN {filepath} ELSE {},
     modified |-> IF r.fileStatus = "modified" THEN {filepath} ELSE {}]

\* relative(toplevel, fileName) for a file below the top level.
relative(toplevel, fileName) == fileName[Len(toplevel) + 2]

(***************************************************************************)
(* getCurrentLine and the commands                                         *)
(***************************************************************************)

ErrNoEditor == "No active text editor"
ErrNotRepo == "Currently opened file is not in a git repository"
ErrNoRemotes == "Current git repository has no remotes"
ErrUntracked == "Current file is untracked, and has no remote URL"
ErrNoRemoteUrl == "No remote URL"
WarnAhead == "Git HEAD is ahead of upstream, line numbers will most likely be wrong"
WarnBehind == "Git HEAD is behind upstream, line numbers will most likely be wrong"
WarnModified == "Current file is modified, line numbers will most likely be wrong"

Errors == {ErrNoEditor, ErrNotRepo, ErrNoRemotes, ErrUntracked, ErrNoRemoteUrl}
Warnings == {WarnAhead, WarnBehind, WarnModified}

IdleRun ==
    [pc |-> "idle", cmd |-> "none", permalink |-> FALSE, useCustomUrl |-> FALSE,
     lineStart |-> 0, lineEnd |-> 0, filepath |-> "", headCommit |-> "",
     headSymbolic |-> "", ref |-> "", remotes |-> <<>>, remote |-> <<>>,
     changes |-> 0, uri |-> NoUri]

\* getCurrentLine from git.status() to its return: the messages it shows
\* and the URI it returns, NoUri for undefined.
afterStatusBlockOnWarning(l, changes) ==
    IF changes.ahead > 0 \/ changes.behind > 0 \/ l.filepath \in changes.modified
    THEN [uri |-> NoUri, messages |-> {WarnAhead}]
    ELSE IF l.filepath \in changes.not_added \/ l.filepath \in changes.created
    THEN [uri |-> NoUri, messages |-> {ErrUntracked}]
    ELSE LET remoteUrl == IF l.remote[1].refs.fetch # Undefined
                          THEN l.remote[1].refs.fetch ELSE l.remote[1].refs.push
         IN  IF remoteUrl = Undefined
             THEN [uri |-> NoUri, messages |-> {ErrNoRemoteUrl}]
             ELSE [uri |-> buildUri(refineURL(remoteUrl), l.ref, l.headCommit,
                                     l.headSymbolic, l.filepath, l.lineStart, l.lineEnd),
                   messages |-> {}]

afterStatusNoUntrackedCheck(l, changes) ==
    LET counts == (IF changes.ahead > 0 THEN {WarnAhead} ELSE {})
                      \cup (IF changes.behind > 0 THEN {WarnBehind} ELSE {})
        warn == counts \cup (IF l.filepath \in changes.modified THEN {WarnModified} ELSE {})
        remoteUrl == IF l.remote[1].refs.fetch # Undefined
                     THEN l.remote[1].refs.fetch ELSE l.remote[1].refs.push
    IN  IF remoteUrl = Undefined
        THEN [uri |-> NoUri, messages |-> warn \cup {ErrNoRemoteUrl}]
        ELSE [uri |-> buildUri(refineURL(remoteUrl), l.ref, l.headCommit,
                                l.headSymbolic, l.filepath, l.lineStart, l.lineEnd),
              messages |-> warn]

afterStatus(l, changes) ==
    LET counts == (IF changes.ahead > 0 THEN {WarnAhead} ELSE {})
                      \cup (IF changes.behind > 0 THEN {WarnBehind} ELSE {})
    IN  IF l.filepath \in changes.not_added \/ l.filepath \in changes.created
        THEN [uri |-> NoUri, messages |-> counts \cup {ErrUntracked}]
        ELSE LET warn == counts \cup (IF l.filepath \in changes.modified
                                      THEN {WarnModified} ELSE {})
                 remoteUrl == IF l.remote[1].refs.fetch # Undefined
                              THEN l.remote[1].refs.fetch ELSE l.remote[1].refs.push
             IN  IF remoteUrl = Undefined
                 THEN [uri |-> NoUri, messages |-> warn \cup {ErrNoRemoteUrl}]
                 ELSE [uri |-> buildUri(refineURL(remoteUrl), l.ref, l.headCommit,
                                         l.headSymbolic, l.filepath, l.lineStart, l.lineEnd),
                       messages |-> warn]

\* A command starts: openCurrentLine or copyCurrentLine calls getCurrentLine,
\* which stops at once without an active editor.
Invoke ==
    /\ run.pc = "idle"
    /\ \E cmd \in {"open", "copy"}, permalink \in BOOLEAN :
         IF ~editor.active
         THEN /\ run' = [run EXCEPT !.pc = "returned", !.cmd = cmd, !.permalink = permalink]
              /\ shown' = shown \cup {ErrNoEditor}
              /\ history' = history
         ELSE /\ run' = [run EXCEPT !.pc = "checkIsRepo", !.cmd = cmd, !.permalink = permalink]
              /\ shown' = shown
              /\ history' = <<repo.head>>
    /\ UNCHANGED <<repo, editor, config, opened, clipboard, barItems, call, documents>>

\* await git.checkIsRepo()
CheckIsRepo ==
    /\ run.pc = "checkIsRepo"
    /\ IF ~repo.isRepo
       THEN /\ run' = [run EXCEPT !.pc = "returned"]
            /\ shown' = shown \cup {ErrNotRepo}
       ELSE /\ run' = [run EXCEPT !.pc = "toplevel"]
            /\ shown' = shown
    /\ UNCHANGED <<repo, editor, config, opened, clipboard, barItems, history, call, documents>>

\* await git.revparse("--show-toplevel"), then the configuration and the
\* selection are read.
RevparseToplevel ==
    /\ run.pc = "toplevel"
    /\ run' = [run EXCEPT !.pc = "revparseHead",
                          !.useCustomUrl = config.customUrlEnabled,
                          !.lineStart = 1 + editor.startLine,
                          !.lineEnd = 1 + editor.endLine,
                          !.filepath = relative(Toplevel, editor.fileName)]
    /\ UNCHANGED <<repo, editor, config, shown, opened, clipboard, barItems, history, call, documents>>

\* await git.revparse("HEAD")
RevparseHead ==
    /\ run.pc = "revparseHead"
    /\ run' = [run EXCEPT !.pc = "revparseAbbrevHead", !.headCommit = repo.head.commit]
    /\ UNCHANGED <<repo, editor, config, shown, opened, clipboard, barItems, history, call, documents>>

\* await git.revparse(["--abbrev-ref", "HEAD"]), then ref is chosen.
RevparseAbbrevHead ==
    /\ run.pc = "revparseAbbrevHead"
    /\ run' = [run EXCEPT !.pc = IF run.useCustomUrl THEN "getGitConfig" ELSE "getRemotes",
                          !.headSymbolic = repo.head.symbolic,
                          !.ref = resolveRef(run.permalink, run.headCommit, repo.head.symbolic)]
    /\ UNCHANGED <<repo, editor, config, shown, opened, clipboard, barItems, history, call, documents>>

\* Custom-URL mode: await getGitConfig(git, "user.name"), render, return.
GetGitConfig ==
    /\ run.pc = "getGitConfig"
    /\ run' = [run EXCEPT !.pc = "returned",
                          !.uri = buildCustomUri(config.customUrl,
                                      customUrlVariables(repo.userName, run.ref, run.lineStart,
                                          run.lineEnd, run.filepath, editor.folderName))]
    /\ UNCHANGED <<repo, editor, config, shown, opened, clipboard, barItems, history, call, documents>>

\* getRemote: await git.getRemotes(true)
GetRemotes ==
    /\ run.pc = "getRemotes"
    /\ run' = [run EXCEPT !.pc = "revparseUpstream", !.remotes = repo.remotes]
    /\ UNCHANGED <<repo, editor, config, shown, opened, clipboard, barItems, history, call, documents>>

\* getRemote: await git.revparse(["--abbrev-ref", "@{upstream}"]) and the
\* rest of getRemote; getCurrentLine stops when it returns null.
RevparseUpstream ==
    /\ run.pc = "revparseUpstream"
    /\ LET remote == getRemote(run.remotes, revparseUpstream(repo.upstream),
                               config.prefferedRemote)
       IN  IF remote = <<>>
           THEN /\ run' = [run EXCEPT !.pc = "returned"]
                /\ shown' = shown \cup {ErrNoRemotes}
           ELSE /\ run' = [run EXCEPT !.pc = "status", !.remote = remote]
                /\ shown' = shown
    /\ UNCHANGED <<repo, editor, config, opened, clipboard, barItems, history, call, documents>>

\* await git.status() and the rest of getCurrentLine.
GitStatus ==
    /\ run.pc = "status"
    /\ LET r == afterStatus(run, gitStatus(repo, run.filepath))
       IN  /\ run' = [run EXCEPT !.pc = "returned", !.uri = r.uri]
           /\ shown' = shown \cup r.messages
    /\ UNCHANGED <<repo, editor, config, opened, clipboard, barItems, history, call, documents>>

\* openCurrentLine after getCurrentLine: the URI, if any, is opened.
OpenExternal ==
    /\ run.pc = "returned" /\ run.cmd = "open"
    /\ opened' = IF run.uri # NoUri THEN opened \cup {run.uri} ELSE opened
    /\ run' = [run EXCEPT !.pc = "done"]
    /\ UNCHANGED <<repo, editor, config, shown, clipboard, barItems, history, call, documents>>

\* copyCurrentLine after getCurrentLine: the URI, if any, is written to the
\* clipboard; then the status bar item is created and shown.
ClipboardWrite ==
    /\ run.pc = "returned" /\ run.cmd = "copy"
    /\ clipboard' = IF run.uri # NoUri THEN run.uri ELSE clipboard
    /\ barItems' = barItems + 1
    /\ run' = [run EXCEPT !.pc = "done"]
    /\ UNCHANGED <<repo, editor, config, shown, opened, history, call, documents>>

\* The repository changes under a running command: another HEAD is checked out.
RepoChange ==
    /\ run.pc \notin {"idle", "returned", "done"}
    /\ run.changes < MaxRepoChanges
    /\ \E h \in HeadStates \ {repo.head} :
         /\ repo.isRepo
         /\ repo' = [repo EXCEPT !.head = h]
         /\ history' = Append(history, h)
    /\ run' = [run EXCEPT !.changes = run.changes + 1]
    /\ UNCHANGED <<editor, config, shown, opened, clipboard, barItems, call, documents>>

\* showLineDebugInfo up to the JSON it opens: the messages it shows and the
\* documents it opens, none after an error.  Its lines from git.status() to
\* the URI (235-286) are those of getCurrentLine (130-181) with its own ref.
debugInfo(ed, r, cfg) ==
    IF ~ed.active THEN [messages |-> {ErrNoEditor}, docs |-> <<>>]
    ELSE IF ~r.isRepo THEN [messages |-> {ErrNotRepo}, docs |-> <<>>]
    ELSE
      LET lineStart == 1 + ed.startLine
          lineEnd == 1 + ed.endLine
          filepath == relative(Toplevel, ed.fileName)
          headCommit == r.head.commit
          headSymbolic == r.head.symbolic
          ref == IF headSymbolic = "HEAD" THEN headCommit ELSE headSymbolic
          variables == customUrlVariables(r.userName, ref, lineStart, lineEnd, filepath,
                                          ed.folderName)
          remote == getRemote(r.remotes, revparseUpstream(r.upstream), cfg.prefferedRemote)
          l == [filepath |-> filepath, remote |-> remote, ref |-> ref,
                headCommit |-> headCommit, headSymbolic |-> headSymbolic,
                lineStart |-> lineStart, lineEnd |-> lineEnd]
      IN  IF remote = <<>> THEN [messages |-> {ErrNoRemotes}, docs |-> <<>>]
          ELSE LET res == afterStatus(l, gitStatus(r, filepath))
               IN  IF res.uri = NoUri THEN [messages |-> res.messages, docs |-> <<>>]
                   ELSE [messages |-> res.messages,
                         docs |-> <<[filepath |-> filepath, lineStart |-> lineStart,
                                     lineEnd |-> lineEnd, headCommit |-> headCommit,
                                     headSymbolic |-> headSymbolic, ref |-> ref,
                                     generatedCustomUrl |->
                                         buildCustomUri(cfg.customUrl, variables),
                                     remote |-> remote[1], uri |-> res.uri]>>]

\* The command gitgps.debug.showLineDebugInfo, run while no other command is
\* under way and until it has opened a document; the repository does not
\* change while it runs.
ShowLineDebugInfo ==
    /\ run.pc \in {"idle", "done"}
    /\ documents = <<>>
    /\ LET d == debugInfo(editor, repo, config)
       IN  /\ shown' = shown \cup d.messages
           /\ documents' = documents \o d.docs
    /\ UNCHANGED <<repo, editor, config, run, opened, clipboard, barItems, history, call>>

NoCall == [op |-> "none"]

EmptyClipboard == [kind |-> "empty"]

Init ==
    /\ repo \in Repos \cup {NotARepo}
    /\ editor \in Editors \cup {NoEditor}
    /\ config \in Configs
    /\ run = IdleRun
    /\ shown = {}
    /\ opened = {}
    /\ clipboard = EmptyClipboard
    /\ barItems = 0
    /\ history = <<>>
    /\ documents = <<>>
    /\ call = NoCall

Next ==
    \/ Invoke
    \/ CheckIsRepo
    \/ RevparseToplevel
    \/ RevparseHead
    \/ RevparseAbbrevHead
    \/ GetGitConfig
    \/ GetRemotes
    \/ RevparseUpstream
    \/ GitStatus
    \/ OpenExternal
    \/ ClipboardWrite
    \/ RepoChange

Spec == Init /\ [][Next]_vars

\* The commands and the debug command over a repository that stays as it is.
NextDebug ==
    \/ ShowLineDebugInfo
    \/ Invoke
    \/ CheckIsRepo
    \/ RevparseToplevel
    \/ RevparseHead
    \/ RevparseAbbrevHead
    \/ GetGitConfig
    \/ GetRemotes
    \/ RevparseUpstream
    \/ GitStatus
    \/ OpenExternal
    \/ ClipboardWrite

SpecDebug == Init /\ [][NextDebug]_vars

(***************************************************************************)
(* getRemote on its own: every small set of remotes, every upstream and    *)
(* every preferred name                                                    *)
(***************************************************************************)

RemoteNames == {<<"origin">>, <<"up">>, <<"up", "/", "fork">>, <<"mirror">>}

\* Name a is a remote nested below remote b (b/...): git refuses the pair.
Nested(a, b) == Len(a) > Len(b) /\ SubSeq(a, 1, Len(b) + 1) = b \o <<"/">>

RECURSIVE SeqsUpTo(_, _)
SeqsUpTo(S, n) ==
    IF n = 0 THEN {<<>>}
    ELSE SeqsUpTo(S, n - 1) \cup {Append(q, x) : q \in {p \in SeqsUpTo(S, n - 1) : Len(p) = n - 1}, x \in S}

\* The lists of remotes git reports: unique names, none nested in another.
RemoteLists ==
    { <<>> } \cup
    { [i \in 1..Len(names) |-> Remote(names[i], GithubSsh, GithubSsh)] :
        names \in { q \in SeqsUpTo(RemoteNames, MaxRemotes) :
                      /\ Len(q) > 0
                      /\ \A i, j \in 1..Len(q) : i # j => q[i] # q[j] /\ ~Nested(q[i], q[j]) } }

UpstreamBranches == {<<"main">>, <<"feat", "/", "x">>}

Upstreams ==
    {NoUpstream} \cup
    {Upstream(n, b) : n \in RemoteNames \cup {<<".">>}, b \in UpstreamBranches}

InitRemote ==
    /\ call \in { [op |-> "getRemote", done |-> FALSE, remotes |-> l, upstream |-> u,
                   prefferedRemoteName |-> p, ret |-> <<>>] :
                     l \in RemoteLists, u \in Upstreams, p \in {<<"origin">>, <<"up">>} }
    /\ repo = NotARepo
    /\ editor = NoEditor
    /\ config \in {c \in Configs : ~c.customUrlEnabled}
    /\ run = IdleRun
    /\ shown = {}
    /\ opened = {}
    /\ clipboard = EmptyClipboard
    /\ barItems = 0
    /\ history = <<>>
    /\ documents = <<>>

CallGetRemote ==
    /\ call.op = "getRemote" /\ ~call.done
    /\ call' = [call EXCEPT !.done = TRUE,
                            !.ret = getRemote(call.remotes, revparseUpstream(call.upstream),
                                              call.prefferedRemoteName)]
    /\ UNCHANGED <<repo, editor, config, run, shown, opened, clipboard, barItems, history, documents>>

SpecRemote == InitRemote /\ [][CallGetRemote]_vars

(***************************************************************************)
(* replaceVariablesCustomUrl on its own: every short template              *)
(***************************************************************************)

TemplateTokens == {"{", "}", "\\", "ref", "folderName", "x", "toString"}

Templates == SeqsUpTo(TemplateTokens, MaxTemplateLen)

TemplateVariables ==
    { customUrlVariables(<<"Jane", " ", "Doe">>, "main", 1, 2, "src/a.ts", f) :
        f \in {Undefined, <<"proj">>} }

InitTemplate ==
    /\ call \in { [op |-> "replaceVariablesCustomUrl", done |-> FALSE, customUrl |-> t,
                   variables |-> v, ret |-> <<>>] : t \in Templates, v \in TemplateVariables }
    /\ repo = NotARepo
    /\ editor = NoEditor
    /\ config \in {c \in Configs : c.customUrlEnabled}
    /\ run = IdleRun
    /\ shown = {}
    /\ opened = {}
    /\ clipboard = EmptyClipboard
    /\ barItems = 0
    /\ history = <<>>
    /\ documents = <<>>

CallReplaceVariables ==
    /\ call.op = "replaceVariablesCustomUrl" /\ ~call.done
    /\ call' = [call EXCEPT !.done = TRUE,
                            !.ret = replaceVariablesCustomUrl(call.customUrl, call.variables)]
    /\ UNCHANGED <<repo, editor, config, run, shown, opened, clipboard, barItems, history, documents>>

SpecTemplate == InitTemplate /\ [][CallReplaceVariables]_vars

(***************************************************************************)
(* Claims about getRemote (SpecRemote)                                     *)
(***************************************************************************)

RemoteCallDone == call.op = "getRemote" /\ call.done

\* The remote the current branch tracks, when it is among the remotes.
TrackedRemote == IF call.upstream.set THEN FindRemote(call.remotes, call.upstream.remote) ELSE <<>>

\* C4: whenever the current branch has an upstream remote name and a remote
\* with that name is among the configured remotes, getRemote returns exactly
\* that remote, for every preferred name and every ordering of the remotes.
C4_UpstreamRemoteReturned ==
    (RemoteCallDone /\ TrackedRemote # <<>>) => call.ret = TrackedRemote

\* The code's first step found a remote: the text before the first "/" of
\* the upstream's short name is the name of a remote.
UpstreamMatched ==
    /\ call.upstream.set
    /\ \E i \in 1..Len(call.remotes) :
         LET out == revparseUpstream(call.upstream).out
             n == call.remotes[i].name
         IN  /\ Len(out) >= Len(n)
             /\ SubSeq(out, 1, Len(n)) = n
             /\ \A k \in 2..Len(n) : n[k] # "/"
             /\ (Len(out) = Len(n) \/ out[Len(n) + 1] = "/")

PreferredExists == \E i \in 1..Len(call.remotes) : call.remotes[i].name = call.prefferedRemoteName

ClaimedValue(variables, name) ==
    IF Len(name) = 1 /\ name[1] \in DOMAIN variables /\ variables[name[1]] # Undefined
    THEN variables[name[1]]
    ELSE <<>>

\* s[i..j] is a placeholder {name}: braces at both ends and none between.
IsPlaceholder(s, i, j) ==
    /\ i < j /\ s[i] = "{" /\ s[j] = "}"
    /\ \A k \in (i + 1)..(j - 1) : s[k] \notin {"{", "}"}

Escaped(s, i, j) == (i > 1 /\ s[i - 1] = "\\") \/ s[j - 1] = "\\"

\* The rendering the claim describes, from position i on.
RECURSIVE ClaimedFrom(_, _, _)
ClaimedFrom(s, i, variables) ==
    IF i > Len(s) THEN <<>>
    ELSE LET ends == {j \in (i + 1)..Len(s) : IsPlaceholder(s, i, j)}
         IN  IF ends # {} /\ ~Escaped(s, i, Min(ends))
             THEN ClaimedValue(variables, SubSeq(s, i + 1, Min(ends) - 1))
                      \o ClaimedFrom(s, Min(ends) + 1, variables)
             ELSE <<s[i]>> \o ClaimedFrom(s, i + 1, variables)

\* C9: every unescaped {name} placeholder is replaced by the value of the
\* variable, or by the empty string when the name is unknown or unset; an
\* escaped placeholder and all text outside placeholders stay as written.
C9_TemplateRendering ==
    (call.op = "replaceVariablesCustomUrl" /\ call.done) =>
        call.ret = ClaimedFrom(call.customUrl, 1, call.variables)

\* The same, for templates that name no property inherited from Object.prototype.
C9_WithoutInheritedKeys ==
    (/\ call.op = "replaceVariablesCustomUrl" /\ call.done
     /\ \A i \in 1..Len(call.customUrl) : call.customUrl[i] \notin InheritedKeys) =>
        call.ret = ClaimedFrom(call.customUrl, 1, call.variables)

(***************************************************************************)
(* Claims about getCurrentLine and the commands (Spec)                     *)
(***************************************************************************)

\* getCurrentLine has returned to the command that called it.
Returned == run.pc \in {"returned", "done"}

\* remote.refs.fetch ?? remote.refs.push of the remote the run selected.
SelectedUrl ==
    IF run.remote[1].refs.fetch # Undefined
    THEN run.remote[1].refs.fetch ELSE run.remote[1].refs.push

\* The host of the selected remote contains "bitbucket".
HostHasBitbucket ==
    LET host == refineURL(SelectedUrl).authority
    IN  "bitbucket" \in {host[i] : i \in 1..Len(host)}

\* The reference in the URL the run produced: the path segment before the
\* file path, and in custom-URL mode the value put in place of {ref}.
LinkReference ==
    IF run.uri.kind = "custom"
    THEN run.uri.text[1 + CHOOSE i \in 1..Len(run.uri.text) : run.uri.text[i] = "/tree/"]
    ELSE run.uri.path[Len(run.uri.path) - 1]

\* C1: a live link (permalink false) carries the branch name when HEAD is on
\* a branch and headCommit when HEAD is detached, never the literal "HEAD",
\* in the GitHub-style path and in the custom-URL ref variable.
C1_LiveLinkReference ==
    (/\ Returned /\ ~run.permalink /\ run.uri # NoUri
     /\ (run.uri.kind = "custom" \/ ~HostHasBitbucket)) =>
        /\ LinkReference # "HEAD"
        /\ LinkReference = IF run.headSymbolic \in BranchNames
                           THEN run.headSymbolic ELSE run.headCommit

Untracked == repo.fileStatus \in {"not_added", "created"}

\* C2: when the linked file is untracked the run ends with the UntrackedFile
\* error and no URL, nothing is opened or copied, whatever the other inputs.
C2_UntrackedAlwaysError ==
    (Returned /\ editor.active /\ repo.isRepo /\ Untracked) =>
        /\ ErrUntracked \in shown
        /\ run.uri = NoUri /\ opened = {} /\ clipboard = EmptyClipboard

\* C2 as amended: with custom-URL mode off and a remote selected, an
\* untracked file ends the run with the UntrackedFile error and no URL,
\* nothing is opened or copied; with custom-URL mode off and no remote the
\* run ends with no URL either.
C2_UntrackedErrorRemoteMode ==
    (Returned /\ editor.active /\ repo.isRepo /\ Untracked /\ ~run.useCustomUrl) =>
        /\ run.remote # <<>> => ErrUntracked \in shown
        /\ run.uri = NoUri /\ opened = {} /\ clipboard = EmptyClipboard

C2_Witness ==
    /\ run.pc = "done" /\ Untracked /\ ~run.useCustomUrl /\ run.remote # <<>>
    /\ run.permalink /\ repo.ahead > 0 /\ SelectedUrl = Undefined
    /\ ErrUntracked \in shown /\ run.uri = NoUri

\* C3: a Bitbucket-style URL is {base}/src/{headCommit}/{filepath} with the
\* fragment lines-{line}; its query is at={branch} when HEAD is on a branch,
\* and holds neither a branch name nor "HEAD" when HEAD is detached.
C3_BitbucketForm ==
    (Returned /\ run.uri.kind = "uri" /\ HostHasBitbucket) =>
        /\ run.uri.path = refineURL(SelectedUrl).path \o <<"src", run.headCommit, run.filepath>>
        /\ run.uri.fragment[1] = "lines-"
        /\ run.headSymbolic \in BranchNames => run.uri.query = <<"at=", run.headSymbolic>>
        /\ run.headSymbolic = "HEAD" =>
             \A i \in 1..Len(run.uri.query) : run.uri.query[i] \notin BranchNames \cup {"HEAD"}

\* C6: a permalink carries headCommit as its reference, on a branch and
\* detached, from a remote and from the custom URL; no branch name is in the
\* path of a permalink or in the rendered custom URL.
C6_PermalinkReference ==
    (Returned /\ run.permalink /\ run.uri # NoUri) =>
        /\ LinkReference = run.headCommit
        /\ run.uri.kind = "uri" =>
             \A i \in 1..Len(run.uri.path) : run.uri.path[i] \notin BranchNames
        /\ run.uri.kind = "custom" =>
             \A i \in 1..Len(run.uri.text) : run.uri.text[i] \notin BranchNames

C6_Witness ==
    /\ run.pc = "done" /\ run.permalink /\ run.uri.kind = "uri"
    /\ run.headSymbolic \in BranchNames /\ ~HostHasBitbucket
    /\ LinkReference = run.headCommit

WithoutWarnings(r) == [r EXCEPT !.ahead = 0, !.behind = 0, !.fileStatus = "clean"]

\* C8: with a selected remote that has a URL and a tracked file, a URL is
\* produced whether or not HEAD is ahead or behind or the file is modified,
\* no error is shown, and the URL is the one of the same snapshot without
\* any warning condition.
C8_WarningsDoNotBlock ==
    (/\ Returned /\ editor.active /\ repo.isRepo /\ ~run.useCustomUrl
     /\ run.remote # <<>> /\ SelectedUrl # Undefined /\ ~Untracked) =>
        /\ run.uri.kind = "uri"
        /\ shown \cap Errors = {}
        /\ run.uri = afterStatus(run, gitStatus(WithoutWarnings(repo), run.filepath)).uri

C8_Witness ==
    /\ run.pc = "done" /\ run.uri.kind = "uri"
    /\ {WarnAhead, WarnBehind, WarnModified} \subseteq shown

\* C10: the head commit and the branch name one run uses are those of one
\* state of the repository, also when the repository changes during the run:
\* the commit in the path and the branch in the query of a produced
\* Bitbucket-style URL were HEAD's commit and branch at one moment of the run.
C10_OneSnapshot ==
    (Returned /\ run.uri.kind = "uri" /\ HostHasBitbucket) =>
        \E i \in 1..Len(history) :
            /\ history[i].commit = run.uri.path[Len(run.uri.path) - 1]
            /\ history[i].symbolic = run.uri.query[2]

\* C11: copyCurrentLine shows "Successfully copied to clipboard!" only in a
\* run that produced a URL and wrote it to the clipboard; a run that ends in
\* a failure leaves the clipboard as it was and shows no success indication.
C11_SuccessOnlyAfterCopy ==
    (run.pc = "done" /\ run.cmd = "copy") =>
        /\ barItems > 0 => run.uri # NoUri /\ clipboard = run.uri
        /\ shown \cap Errors # {} => clipboard = EmptyClipboard /\ barItems = 0

\* C12: on a snapshot on which showLineDebugInfo and a live link from the
\* remote (permalink false, custom-URL mode off) both complete without an
\* error, the ref and the uri of the debug output are the reference and the
\* URL of the live link, on a branch and detached, for both kinds of host.
C12_DebugReportsLiveLink ==
    (/\ Returned /\ ~run.permalink /\ ~run.useCustomUrl /\ run.uri.kind = "uri"
     /\ documents # <<>>) =>
        /\ documents[1].ref = run.ref
        /\ documents[1].uri = run.uri

\* The same on a branch only.
C12_OnBranch ==
    (/\ Returned /\ ~run.permalink /\ ~run.useCustomUrl /\ run.uri.kind = "uri"
     /\ documents # <<>> /\ run.headSymbolic \in BranchNames) =>
        /\ documents[1].ref = run.ref
        /\ documents[1].uri = run.uri

====
